---- MODULE Spec2Model ----
(***************************************************************************)
(* Model of the tree2forest scene: the forest layout computed by the       *)
(* tree-count effect of TreeScene, the life cycle of the scene (the        *)
(* initialization effect, its cleanup, the animation loop, the resize      *)
(* handler, the slider of App) and the trunk profile drawn by              *)
(* createStickGeometry.                                                    *)
(*                                                                         *)
(* Units.  Layout coordinates are in tenths of a scene unit (spacing 5.0   *)
(* is 50): every coordinate the layout produces is a multiple of 2.5, so   *)
(* the floating-point arithmetic of the source is exact on them.  Trunk    *)
(* profile coordinates are in 1/200 of a scene unit (0.5 is 100, 0.08 is   *)
(* 16), so that width/2 and height/2 are integers.                         *)
(***************************************************************************)
EXTENDS Integers, Sequences, FiniteSets

\* ---------------------------------------------------------------- bounds

\* how many times the initialization effect may run (mount, re-mount)
MaxMounts == 2
\* how many animation frames may be requested in all
MaxFrames == 4
\* largest tree count the slider is dragged to in the scene's life cycle (the
\* layout itself is checked for every count of the slider, under SpecLayout)
MaxCount == 10
\* largest padding tried for the trunk outline, in hundredths of a unit
MaxPaddingHundredths == 8

\* ------------------------------------------------------ program constants

\* <input type="range" min="1" max="100">
SliderMin == 1
SliderMax == 100
\* useState<number>(1)
InitialTreeCount == 1
\* const spacingX = 5.0; const spacingZ = 5.0;   (tenths)
spacingX == 50
spacingZ == 50
\* const width = 0.5 + padding; const height = 3.5 + padding;   (1/200)
StickWidth == 100
StickHeight == 700

VARIABLES
  \* App
  treeCount,       \* the treeCount state of App, handed to TreeScene as a prop
  \* TreeScene, React side
  phase,           \* "unmounted" | "mounted": whether the init effect is live
  mounts,          \* how many times the init effect has run; the latest run's number
  effectPending,   \* "none" | "mount" | "update": tree-count effect due to run
  sceneRef,        \* sceneRef.current: 0 (null) or the run that made the scene
  treeGroupRef,    \* treeGroupRef.current: 0 (null) or the run that made the group
  assetsRef,       \* assetsRef.current: 0 (null) or the run that made the bundle
  children,        \* treeGroupRef.current.children
  disposed,        \* every resource ever created |-> number of dispose() calls on it
  \* browser side
  pendingFrames,   \* frame callbacks requested and not yet run or cancelled
  frameId,         \* the frameId variable of each run's closure
  rafCounter,      \* handles handed out by requestAnimationFrame so far
  lastRender,      \* "none" | "live" | "disposed": what the last render call drew with
  listeners,       \* runs whose handleResize is registered on window
  cameraAspect,    \* aspect the camera frustum was last set for
  \* the layout loop, step by step
  r,               \* loop variable of the row loop
  treesProcessed,
  positions,
  layoutPc,        \* "idle" | "rows" | "shift" | "done"
  \* the trunk profiles
  padding,         \* padding of the outline profile (1/200)
  stickProfile,    \* createStickGeometry()
  outlineProfile,  \* createStickGeometry(padding)
  probe,           \* a point of the base outline
  stickPc          \* "idle" | "start" | "built" | "probed"

appVars    == <<treeCount>>
sceneVars  == <<phase, mounts, effectPending, sceneRef, treeGroupRef, assetsRef,
                children, disposed, pendingFrames, frameId, rafCounter,
                lastRender, listeners, cameraAspect>>
layoutVars == <<r, treesProcessed, positions, layoutPc>>
stickVars  == <<padding, stickProfile, outlineProfile, probe, stickPc>>
vars       == <<appVars, sceneVars, layoutVars, stickVars>>

Min(a, b) == IF a < b THEN a ELSE b

\* ================================================================ layout

\* Math.floor(Math.sqrt(treeCount)) + 1 in place of the ceiling
ColsFloorPlusOne(n) == (CHOOSE c \in 0..n : c * c <= n /\ (c + 1) * (c + 1) > n) + 1

\* Math.ceil(Math.sqrt(treeCount)): sqrt is correctly rounded, so the ceiling
\* is the least integer whose square reaches treeCount
Cols(n) == CHOOSE c \in 0..n : c * c >= n /\ (c = 0 \/ (c - 1) * (c - 1) < n)

\* Math.ceil(treeCount / cols)
Rows(n) == (n + Cols(n) - 1) \div Cols(n)

\* every row filled to cols, whatever remains
TreesInRowNoMin(n, processed) == Cols(n)

\* const treesInRow = Math.min(cols, remaining), remaining = treeCount - treesProcessed
TreesInRow(n, processed) == Min(Cols(n), n - processed)

\* the row starts at -rowWidth, not at half of it
StartXNotHalved(treesInRow) == -((treesInRow - 1) * spacingX)

\* const rowWidth = (treesInRow - 1) * spacingX; const startX = -rowWidth / 2;
\* rowWidth is a multiple of 50, so the halving is exact
StartX(treesInRow) == -(((treesInRow - 1) * spacingX) \div 2)

\* the column index counted from 1 in the x coordinate
RowPositionsFromOne(n, row, processed) ==
  [c \in 1..Min(Cols(n), n - processed) |->
     [x |-> -(((Min(Cols(n), n - processed) - 1) * spacingX) \div 2) + c * spacingX,
      z |-> row * spacingZ]]

\* the inner loop: positions.push({x: startX + c * spacingX, z: r * spacingZ})
RowPositions(n, row, processed) ==
  [c \in 1..TreesInRow(n, processed) |->
     [x |-> StartX(TreesInRow(n, processed)) + (c - 1) * spacingX,
      z |-> row * spacingZ]]

\* const zOffset = totalDepth / 2, totalDepth = (rows - 1) * spacingZ;
\* positions.forEach(p => { p.z -= zOffset })
ShiftZ(n, ps) ==
  [i \in 1..Len(ps) |->
     [x |-> ps[i].x, z |-> ps[i].z - (((Rows(n) - 1) * spacingZ) \div 2)]]

RECURSIVE RowLoop(_, _, _, _)
\* for (let r = 0; r < rows; r++) { ...; treesProcessed += treesInRow }
RowLoop(n, row, processed, acc) ==
  IF row < Rows(n)
    THEN RowLoop(n, row + 1, processed + TreesInRow(n, processed),
                 acc \o RowPositions(n, row, processed))
    ELSE acc

\* the whole layout calculation of the tree-count effect
Layout(n) == ShiftZ(n, RowLoop(n, 0, 0, <<>>))

\* ================================================================= scene

\* the bundle stored in assetsRef.current
GeometryNames == {"stickGeometry", "stickOutlineGeometry", "foliageGeometry",
                  "floorGeometry"}
MaterialNames == {"stickMaterial", "stickOutlineMaterial", "foliageMaterial",
                  "outlineMaterial", "floorBaseMaterial", "floorShadowMaterial"}
AssetNames == GeometryNames \cup MaterialNames
\* the shared resources of one run of the init effect: the bundle and the
\* floor texture (held by floorBaseMaterial.map and by the closure)
SharedNames == AssetNames \cup {"floorTexture"}
\* everything one run creates that has a dispose()
ResourceNames == SharedNames \cup {"renderer"}

\* a resource instance: the run that created it and its name
Res(g, name) == <<g, name>>
ResourcesOf(g) == {Res(g, name) : name \in ResourceNames}

\* new THREE.Mesh(geometry, material)
Mesh(g, geometry, material) ==
  [kind |-> "mesh", geometry |-> Res(g, geometry), material |-> Res(g, material)]

\* the two floor layers the tree-count effect adds first
FloorLayers(g) ==
  << Mesh(g, "floorGeometry", "floorBaseMaterial"),
     Mesh(g, "floorGeometry", "floorShadowMaterial") >>

\* one tree: a group at (pos.x, 0, pos.z) holding stick, stick outline,
\* foliage and foliage outline, all built from the bundle `assets`
Tree(g, pos) ==
  [kind |-> "tree", x |-> pos.x, z |-> pos.z,
   meshes |-> << Mesh(g, "stickGeometry", "stickMaterial"),
                 Mesh(g, "stickOutlineGeometry", "stickOutlineMaterial"),
                 Mesh(g, "foliageGeometry", "foliageMaterial"),
                 Mesh(g, "foliageGeometry", "outlineMaterial") >>]

ClearGroupKeepsAll(kids) == kids

RECURSIVE ClearGroup(_)
\* while (group.children.length > 0) { group.remove(group.children[0]); }
ClearGroup(kids) == IF Len(kids) > 0 THEN ClearGroup(Tail(kids)) ELSE kids

\* positions.forEach((pos) => { ...; group.add(tree) })
AddTrees(kids, g, ps) == kids \o [i \in 1..Len(ps) |-> Tree(g, ps[i])]

\* the body of the tree-count effect after its guard: clear the group, add the
\* floor layers, compute the layout, add one tree per position
RebuildGroup(kids, g, n) == AddTrees(ClearGroup(kids) \o FloorLayers(g), g, Layout(n))

\* requestAnimationFrame(animate): a fresh handle, pending until run or cancelled
Frame(id, g) == [id |-> id, gen |-> g]

FrameIdNotStored(old, new) == old

\* frameId = requestAnimationFrame(animate)
FrameIdAfterRequest(old, new) == new

\* cancelAnimationFrame(frameId)
CancelAnimationFrame(pending, id) == {f \in pending : f.id # id}

\* renderer.render(scene, camera) of run g: with a live or a disposed renderer
RenderWith(g) == IF disposed[Res(g, "renderer")] = 0 THEN "live" ELSE "disposed"

CleanupDisposalsNoTexture(g, ref) ==
  << Res(g, "stickGeometry"), Res(g, "stickOutlineGeometry"),
     Res(g, "foliageGeometry"), Res(g, "floorGeometry") >>
  \o (IF ref # 0
        THEN << Res(ref, "stickMaterial"), Res(ref, "stickOutlineMaterial"),
                Res(ref, "foliageMaterial"), Res(ref, "outlineMaterial"),
                Res(ref, "floorBaseMaterial"), Res(ref, "floorShadowMaterial") >>
        ELSE << >>)
  \o << Res(g, "renderer") >>

\* the dispose() calls of the cleanup, in order: the geometries and the texture
\* through the closure of run g, the materials through assetsRef.current?.
CleanupDisposals(g, ref) ==
  << Res(g, "stickGeometry"), Res(g, "stickOutlineGeometry"),
     Res(g, "foliageGeometry"), Res(g, "floorGeometry") >>
  \o (IF ref # 0
        THEN << Res(ref, "stickMaterial"), Res(ref, "stickOutlineMaterial"),
                Res(ref, "foliageMaterial"), Res(ref, "outlineMaterial"),
                Res(ref, "floorBaseMaterial"), Res(ref, "floorShadowMaterial") >>
        ELSE << >>)
  \o << Res(g, "floorTexture"), Res(g, "renderer") >>

\* the dispose counts after the calls of `calls`
DisposeAll(d, calls) ==
  [res \in DOMAIN d |->
     d[res] + Cardinality({i \in 1..Len(calls) : calls[i] = res})]

\* window aspect ratios a resize may produce (landscape, portrait)
Aspects == {"landscape", "portrait"}

\* ---------------------------------------------------------------- actions

\* The init effect (useEffect(..., [])) up to and including the registration
\* of the resize listener.  It runs on mount, and again after its cleanup when
\* React re-runs the effects of a mounted component (the refs of the component
\* survive that).  mountRef.current is the rendered div.
InitScene ==
  /\ phase = "unmounted"
  /\ mounts < MaxMounts
  /\ LET g  == mounts + 1
         id == rafCounter + 1
     IN /\ mounts' = g
        /\ sceneRef' = g
        /\ treeGroupRef' = g
        /\ children' = << >>
        /\ disposed' = [res \in DOMAIN disposed \cup ResourcesOf(g) |->
                          IF res \in DOMAIN disposed THEN disposed[res] ELSE 0]
        /\ assetsRef' = g
        \* animate(): request the next frame, update the controls, render
        /\ rafCounter' = id
        /\ frameId' = [h \in 1..g |->
                         IF h = g THEN FrameIdAfterRequest(0, id) ELSE frameId[h]]
        /\ pendingFrames' = pendingFrames \cup {Frame(id, g)}
        /\ lastRender' = "live"
        /\ listeners' = listeners \cup {g}
  /\ cameraAspect' = cameraAspect
  /\ phase' = "mounted"
  /\ effectPending' = "mount"
  /\ UNCHANGED <<appVars, layoutVars, stickVars>>

\* The tree-count effect (useEffect(..., [treeCount])): on mount, right after
\* the init effect, and after every change of treeCount.
TreeCountEffect ==
  /\ phase = "mounted"
  /\ effectPending # "none"
  /\ treeGroupRef # 0 /\ assetsRef # 0
  /\ children' = RebuildGroup(children, assetsRef, treeCount)
  /\ effectPending' = "none"
  /\ UNCHANGED <<phase, mounts, sceneRef, treeGroupRef, assetsRef, disposed,
                 pendingFrames, frameId, rafCounter, lastRender, listeners,
                 cameraAspect, appVars, layoutVars, stickVars>>

\* The slider: onChange={(e) => setTreeCount(parseInt(e.target.value))}.  The
\* re-render schedules the tree-count effect; React runs pending effects before
\* it handles the next update.
SliderChange ==
  /\ phase = "mounted"
  /\ effectPending = "none"
  /\ \E v \in SliderMin..Min(SliderMax, MaxCount) :
       /\ v # treeCount
       /\ treeCount' = v
  /\ effectPending' = "update"
  /\ UNCHANGED <<phase, mounts, sceneRef, treeGroupRef, assetsRef, children,
                 disposed, pendingFrames, frameId, rafCounter, lastRender,
                 listeners, cameraAspect, layoutVars, stickVars>>

\* A display frame: the browser runs one pending frame callback, animate.  The
\* mount effects run in one synchronous pass, so no frame falls between the
\* init effect and the first tree-count effect; an update's effect is a passive
\* effect, which React may run after the browser has painted.
Tick ==
  /\ effectPending # "mount"
  /\ rafCounter < MaxFrames
  /\ \E f \in pendingFrames :
       LET id == rafCounter + 1
       IN /\ rafCounter' = id
          /\ frameId' = [frameId EXCEPT ![f.gen] = FrameIdAfterRequest(@, id)]
          /\ pendingFrames' = (pendingFrames \ {f}) \cup {Frame(id, f.gen)}
          /\ lastRender' = RenderWith(f.gen)
  /\ UNCHANGED <<phase, mounts, effectPending, sceneRef, treeGroupRef, assetsRef,
                 children, disposed, listeners, cameraAspect, appVars,
                 layoutVars, stickVars>>

\* A resize event of the window: handleResize runs if it is registered.
Resize ==
  /\ listeners # {}
  /\ \E a \in Aspects :
       /\ a # cameraAspect
       /\ cameraAspect' = a
  /\ UNCHANGED <<phase, mounts, effectPending, sceneRef, treeGroupRef, assetsRef,
                 children, disposed, pendingFrames, frameId, rafCounter,
                 lastRender, listeners, appVars, layoutVars, stickVars>>

\* The cleanup the init effect returns.  React runs pending effects first.
Cleanup ==
  /\ phase = "mounted"
  /\ effectPending = "none"
  /\ listeners' = listeners \ {mounts}
  /\ pendingFrames' = CancelAnimationFrame(pendingFrames, frameId[mounts])
  /\ disposed' = DisposeAll(disposed, CleanupDisposals(mounts, assetsRef))
  /\ phase' = "unmounted"
  /\ UNCHANGED <<mounts, effectPending, sceneRef, treeGroupRef, assetsRef,
                 children, frameId, rafCounter, lastRender, cameraAspect,
                 appVars, layoutVars, stickVars>>

IdleScene ==
  /\ phase = "unmounted"
  /\ mounts = 0
  /\ effectPending = "none"
  /\ sceneRef = 0 /\ treeGroupRef = 0 /\ assetsRef = 0
  /\ children = << >>
  /\ disposed = << >>
  /\ pendingFrames = {}
  /\ frameId = << >>
  /\ rafCounter = 0
  /\ lastRender = "none"
  /\ listeners = {}
  /\ cameraAspect = "landscape"

IdleLayout ==
  /\ r = 0 /\ treesProcessed = 0 /\ positions = << >> /\ layoutPc = "idle"

IdleStick ==
  /\ padding = 0 /\ stickProfile = << >> /\ outlineProfile = << >>
  /\ probe = << >> /\ stickPc = "idle"

Init ==
  /\ treeCount = InitialTreeCount
  /\ IdleScene /\ IdleLayout /\ IdleStick

Next ==
  \/ InitScene
  \/ TreeCountEffect
  \/ SliderChange
  \/ Tick
  \/ Resize
  \/ Cleanup

Spec == Init /\ [][Next]_vars

\* ==================================================== the layout, step by step

\* The layout calculation of the tree-count effect for one treeCount of the
\* slider's range, one iteration of the row loop at a time.
InitLayout ==
  /\ treeCount \in SliderMin..SliderMax
  /\ r = 0 /\ treesProcessed = 0 /\ positions = << >> /\ layoutPc = "rows"
  /\ IdleScene /\ IdleStick

\* one iteration of for (let r = 0; r < rows; r++)
LayoutRow ==
  /\ layoutPc = "rows"
  /\ r < Rows(treeCount)
  /\ positions' = positions \o RowPositions(treeCount, r, treesProcessed)
  /\ treesProcessed' = treesProcessed + TreesInRow(treeCount, treesProcessed)
  /\ r' = r + 1
  /\ UNCHANGED <<layoutPc, appVars, sceneVars, stickVars>>

\* the loop ends; positions.forEach(p => { p.z -= zOffset })
LayoutShift ==
  /\ layoutPc = "rows"
  /\ ~(r < Rows(treeCount))
  /\ positions' = ShiftZ(treeCount, positions)
  /\ layoutPc' = "done"
  /\ UNCHANGED <<r, treesProcessed, appVars, sceneVars, stickVars>>

NextLayout == LayoutRow \/ LayoutShift

SpecLayout == InitLayout /\ [][NextLayout]_vars

\* ------------------------------------------------------- layout properties

\* c is the ceiling of the square root of n
IsCeilSqrt(c, n) == c * c >= n /\ (c - 1) * (c - 1) < n
\* q is the ceiling of n / c
IsCeilDiv(q, n, c) == q * c >= n /\ (q - 1) * c < n
\* indices of the positions of the finished layout that lie in row `row` of
\* `rows` rows (rows are 5.0 apart and centred on z = 0)
RowZ(row, rows) == row * 50 - ((rows - 1) * 50) \div 2
InRow(row, rows) == {i \in 1..Len(positions) : positions[i].z = RowZ(row, rows)}

\* C1: for every treeCount of the slider, the layout has exactly treeCount
\* positions and no two of them have the same (x, z).
C1_CountAndDistinct ==
  layoutPc = "done" =>
    /\ Len(positions) = treeCount
    /\ \A i, j \in 1..Len(positions) :
         i # j => <<positions[i].x, positions[i].z>> # <<positions[j].x, positions[j].z>>

\* a finished layout of several rows whose last row is partial
C1_Witness ==
  /\ layoutPc = "done" /\ treeCount = 7
  /\ Len(positions) = 7 /\ positions[7] # positions[6]

\* C2: in row-major order, tree i (from 0) of row row, a row of k trees, is at
\* x = -((k-1)*5)/2 + i*5, z = row*5 - ((rows-1)*5)/2, where cols is the ceiling
\* of sqrt(treeCount) and rows the ceiling of treeCount / cols; layout(1) is
\* [(0,0)] and layout(3) is (-2.5,-2.5), (2.5,-2.5), (0,2.5).
C2_Coordinates ==
  layoutPc = "done" =>
    /\ \E cols \in 1..treeCount : \E rows \in 1..treeCount :
         /\ IsCeilSqrt(cols, treeCount) /\ IsCeilDiv(rows, treeCount, cols)
         /\ Len(positions) = treeCount
         /\ \A row \in 0..(rows - 1) :
              LET k == IF row < rows - 1 THEN cols ELSE treeCount - (rows - 1) * cols
              IN \A i \in 0..(k - 1) :
                   /\ 2 * positions[row * cols + i + 1].x = -((k - 1) * 50) + 2 * i * 50
                   /\ 2 * positions[row * cols + i + 1].z = 2 * row * 50 - (rows - 1) * 50
    /\ treeCount = 1 => positions = << [x |-> 0, z |-> 0] >>
    /\ treeCount = 3 => positions = << [x |-> -25, z |-> -25], [x |-> 25, z |-> -25],
                                       [x |-> 0, z |-> 25] >>

\* the layout of 3 trees is finished
C2_Witness ==
  /\ layoutPc = "done" /\ treeCount = 3 /\ Len(positions) = 3
  /\ positions[3].x = 0

\* C3: every row before the last holds exactly cols trees and the last holds
\* between 1 and cols (min(cols, remaining) each); a perfect square k*k gives
\* k rows of k trees, and 4 gives x in {-2.5, 2.5}, z in {-2.5, 2.5}.
C3_RowSizes ==
  layoutPc = "done" =>
    /\ \E cols \in 1..treeCount : \E rows \in 1..treeCount :
         /\ IsCeilSqrt(cols, treeCount) /\ IsCeilDiv(rows, treeCount, cols)
         /\ \A i \in 1..Len(positions) : \E row \in 0..(rows - 1) : i \in InRow(row, rows)
         /\ \A row \in 0..(rows - 1) :
              /\ Cardinality(InRow(row, rows)) = Min(cols, treeCount - row * cols)
              /\ row < rows - 1 => Cardinality(InRow(row, rows)) = cols
              /\ Cardinality(InRow(row, rows)) \in 1..cols
    /\ \A k \in 1..treeCount :
         treeCount = k * k =>
           \A row \in 0..(k - 1) : Cardinality(InRow(row, k)) = k
    /\ treeCount = 4 =>
         {<<positions[i].x, positions[i].z>> : i \in 1..Len(positions)}
           = {<<-25, -25>>, <<25, -25>>, <<-25, 25>>, <<25, 25>>}

\* the layout of a perfect square is finished
C3_Witness ==
  /\ layoutPc = "done" /\ treeCount = 9
  /\ Cardinality(InRow(2, 3)) = 3

\* C4 as claimed: every treeCount that is not a perfect square has a last row
\* with fewer than cols trees.
C4_NonSquareHasPartialRow ==
  layoutPc = "done" =>
    \A cols \in 1..treeCount : \A rows \in 1..treeCount :
      (/\ IsCeilSqrt(cols, treeCount) /\ IsCeilDiv(rows, treeCount, cols)
       /\ cols * cols # treeCount)
      => /\ \A row \in 0..(rows - 2) : Cardinality(InRow(row, rows)) = cols
         /\ Cardinality(InRow(rows - 1, rows)) < cols

\* C4 amended: a treeCount that is not a multiple of cols has complete rows of
\* cols trees plus exactly one partial row, the last, centred on x = 0; a
\* treeCount that is a multiple of cols (a square, or cols*(cols-1)) has
\* complete rows only.
C4_PartialRowIffNotMultiple ==
  layoutPc = "done" =>
    \A cols \in 1..treeCount : \A rows \in 1..treeCount :
      (IsCeilSqrt(cols, treeCount) /\ IsCeilDiv(rows, treeCount, cols))
      => /\ \A row \in 0..(rows - 2) : Cardinality(InRow(row, rows)) = cols
         /\ treeCount % cols = 0 => Cardinality(InRow(rows - 1, rows)) = cols
         /\ treeCount % cols # 0 =>
              LET last == InRow(rows - 1, rows)
              IN /\ Cardinality(last) = treeCount % cols
                 /\ Cardinality(last) < cols
                 /\ rows >= 2
                 /\ \A i \in last : \E j \in last : positions[j].x = -positions[i].x

\* a finished layout with two complete rows and a partial row of two
C4_Witness ==
  /\ layoutPc = "done" /\ treeCount = 8
  /\ Cardinality(InRow(2, 3)) = 2
  /\ Cardinality(InRow(0, 3)) = 3

\* -------------------------------------------------------- scene properties

\* the resources the meshes of a list of scene nodes refer to
MeshResources(kids) ==
  UNION {IF kids[i].kind = "mesh"
           THEN {kids[i].geometry, kids[i].material}
           ELSE UNION {{kids[i].meshes[m].geometry, kids[i].meshes[m].material} :
                         m \in 1..Len(kids[i].meshes)} :
         i \in 1..Len(kids)}

\* C5: once the tree-count effect has run for the latest count, the tree group
\* holds exactly the two floor meshes and treeCount trees of 4 meshes each, at
\* the layout's positions, nothing else; every mesh refers to the bundle made
\* by the initialization, and no rebuild creates, replaces or disposes a
\* shared resource.
C5_GroupIsCurrentForest ==
  /\ DOMAIN disposed = UNION {ResourcesOf(g) : g \in 1..mounts}
  /\ phase = "mounted" =>
       /\ assetsRef = mounts
       /\ \A name \in SharedNames : disposed[Res(mounts, name)] = 0
  /\ (phase = "mounted" /\ effectPending = "none") =>
       /\ Len(children) = 2 + treeCount
       /\ \A i \in 1..2 :
            /\ children[i].kind = "mesh"
            /\ children[i].geometry = Res(mounts, "floorGeometry")
       /\ children[1].material = Res(mounts, "floorBaseMaterial")
       /\ children[2].material = Res(mounts, "floorShadowMaterial")
       /\ \A i \in 3..Len(children) :
            /\ children[i].kind = "tree"
            /\ Len(children[i].meshes) = 4
            /\ <<children[i].x, children[i].z>> =
                 <<Layout(treeCount)[i - 2].x, Layout(treeCount)[i - 2].z>>
       /\ MeshResources(children) = {Res(mounts, name) : name \in AssetNames}

\* the group rebuilt for a count other than the initial one, after frames
\* have been rendered
C5_Witness ==
  /\ phase = "mounted" /\ effectPending = "none"
  /\ treeCount = 3 /\ Len(children) = 5
  /\ rafCounter >= 3

\* C6: at every render (every call of animate, the first one included) the
\* tree group holds the complete forest of the current tree count.
C6_NoStaleRender ==
  [][rafCounter' # rafCounter =>
       /\ Len(children') = 2 + treeCount'
       /\ \A i \in 3..Len(children') :
            /\ children'[i].kind = "tree"
            /\ <<children'[i].x, children'[i].z>> =
                 <<Layout(treeCount')[i - 2].x, Layout(treeCount')[i - 2].z>>]_vars

\* C7: a run of the init effect that has been torn down has had each of its 4
\* geometries, 6 materials and its floor texture disposed exactly once; the
\* live run's have not been disposed at all.
C7_DisposedExactlyOnce ==
  \A g \in 1..mounts : \A name \in SharedNames :
    disposed[Res(g, name)] = IF g < mounts \/ phase = "unmounted" THEN 1 ELSE 0

\* initialization and teardown have both run twice
C7_Witness ==
  /\ phase = "unmounted" /\ mounts = 2
  /\ disposed[Res(1, "floorTexture")] = 1
  /\ disposed[Res(2, "stickMaterial")] = 1

\* what the refs of the component still lead to
ReachableResources ==
  (IF assetsRef # 0 THEN {Res(assetsRef, name) : name \in AssetNames} ELSE {})
  \cup (IF treeGroupRef # 0 \/ sceneRef # 0 THEN MeshResources(children) ELSE {})

\* C8: after teardown the refs of the component lead to no disposed resource.
C8_NoDanglingAfterTeardown ==
  (phase = "unmounted" /\ mounts > 0) =>
    \A res \in ReachableResources : disposed[res] = 0

\* C10: no render happens with a disposed renderer; after teardown no frame
\* callback is pending, so the loop cannot tick again; while the scene is live
\* exactly one callback is pending, and it is the live run's.
C10_LoopStopsAtTeardown ==
  /\ lastRender # "disposed"
  /\ phase = "unmounted" => pendingFrames = {}
  /\ phase = "mounted" =>
       /\ Cardinality(pendingFrames) = 1
       /\ \A f \in pendingFrames : f.gen = mounts

\* teardown after the loop has ticked
C10_Witness ==
  /\ phase = "unmounted" /\ mounts >= 1
  /\ rafCounter >= 3 /\ lastRender = "live"
  /\ pendingFrames = {}

\* ======================================================== the trunk profile

\* The arc of absarc(aX, aY, radius, 0, Math.PI, clockwise) runs through the
\* points (aX + radius*cos a, aY + radius*sin a), with a from 0 to PI when
\* clockwise is false and from 0 to -PI when it is true (THREE.EllipseCurve,
\* in the y-up plane of a Shape): the sign of sin a over the sweep.
ArcSinSign(clockwise) == IF clockwise THEN -1 ELSE 1

\* The closed path createStickGeometry(padding) draws: moveTo(-width/2,
\* height/2), lineTo(width/2, height/2), lineTo(width/2, -height/2 + radius),
\* absarc(0, -height/2 + radius, radius, 0, Math.PI, false),
\* lineTo(-width/2, height/2).  (geometry.center() then translates the extruded
\* solid as a whole; the profile is kept as drawn.)
CreateStickProfile(pad) ==
  LET width  == StickWidth + pad
      height == StickHeight + pad
      radius == width \div 2
  IN [left |-> -(width \div 2), right |-> width \div 2, top |-> height \div 2,
      arcX |-> 0, arcY |-> -(height \div 2) + radius, radius |-> radius,
      arcSide |-> ArcSinSign(FALSE)]

DistSq(p, pt) == (pt[1] - p.arcX) * (pt[1] - p.arcX) + (pt[2] - p.arcY) * (pt[2] - p.arcY)

\* pt lies on the arc of the path
OnArc(p, pt) ==
  /\ DistSq(p, pt) = p.radius * p.radius
  /\ p.arcSide * (pt[2] - p.arcY) >= 0

\* pt lies inside or on the closed path: between the two sides and under the
\* top edge, down to the arc; an arc that bulges upward (arcSide 1) cuts its
\* half disc out of the rectangle, one that bulges downward (arcSide -1) adds
\* its half disc below it
Inside(p, pt) ==
  /\ p.left <= pt[1] /\ pt[1] <= p.right
  /\ pt[2] <= p.top
  /\ IF p.arcSide = 1
       THEN pt[2] >= p.arcY /\ DistSq(p, pt) >= p.radius * p.radius
       ELSE pt[2] >= p.arcY \/ DistSq(p, pt) <= p.radius * p.radius

\* pt lies on the closed path: on a side, on the top edge or on the arc
OnOutline(p, pt) ==
  \/ pt[1] \in {p.left, p.right} /\ p.arcY <= pt[2] /\ pt[2] <= p.top
  \/ pt[2] = p.top /\ p.left <= pt[1] /\ pt[1] <= p.right
  \/ OnArc(p, pt)

\* the paddings tried: 0.01, 0.02, ... (the scene uses 0.08)
Paddings == {2 * k : k \in 1..MaxPaddingHundredths}

\* the lattice points (1/200 of a unit) around a profile
Lattice(p) ==
  {<<x, y>> : x \in p.left..p.right, y \in (p.arcY - p.radius)..p.top}

InitStick ==
  /\ padding \in Paddings
  /\ stickProfile = << >> /\ outlineProfile = << >> /\ probe = << >>
  /\ stickPc = "start"
  /\ treeCount = InitialTreeCount
  /\ IdleScene /\ IdleLayout

\* const stickGeometry = createStickGeometry();
\* const stickOutlineGeo = createStickGeometry(padding);
BuildProfiles ==
  /\ stickPc = "start"
  /\ stickProfile' = CreateStickProfile(0)
  /\ outlineProfile' = CreateStickProfile(padding)
  /\ stickPc' = "built"
  /\ UNCHANGED <<padding, probe, appVars, sceneVars, layoutVars>>

\* pick a point of the base outline
Probe ==
  /\ stickPc = "built"
  /\ \E pt \in Lattice(stickProfile) :
       /\ OnOutline(stickProfile, pt)
       /\ probe' = pt
  /\ stickPc' = "probed"
  /\ UNCHANGED <<padding, stickProfile, outlineProfile, appVars, sceneVars,
                 layoutVars>>

NextStick == BuildProfiles \/ Probe

SpecStick == InitStick /\ [][NextStick]_vars

\* C9: every point of the base outline, the points of its arc included, lies
\* inside or on the padded outline.
C9_PaddedContainsBase ==
  stickPc = "probed" => Inside(outlineProfile, probe)

====
